---------------------------- MODULE Spec2Model ----------------------------
(***************************************************************************)
(* A model of psfws/utils.py: the pure numerical helpers of the package,   *)
(* each modelled as a small state machine over its own variables.          *)
(*                                                                         *)
(*   smooth_dir           sd_*   SpecSmooth, FairSpecSmooth                 *)
(*   process_telemetry    pt_*   SpecProcess                               *)
(*   match_telemetry      mt_*   SpecMatch                                 *)
(*   correlate_marginals  cm_*   SpecCorrelate                             *)
(*   integrate_in_bins    ib_*   SpecBins                                  *)
(*   convert_to_galsim    cg_*   SpecGalsim                                *)
(*                                                                         *)
(* Each specification draws the inputs of one function in its initial      *)
(* states and runs that function; the variables of the others stay idle.   *)
(* Arithmetic is exact (integers in a stated unit, or fractions) on inputs  *)
(* where the code's float64 arithmetic is exact too; smooth_dir also takes *)
(* directions of magnitude 2^70, where float64 absorbs a shift by 360.     *)
(***************************************************************************)
EXTENDS Integers, Sequences, FiniteSets

VARIABLES
    sd_directions,   \* smooth_dir: the caller's array `directions`
    sd_smooth,       \* smooth_dir: the local array `smooth_dir`
    sd_i,            \* smooth_dir: the loop index i (0-based, as in the code)
    sd_pc,           \* smooth_dir: "idle" | "loop" | "down" | "down_body" | "up"
                     \* | "up_body" | "done"
    pt_telemetry,    \* process_telemetry: the input dict of series
    pt_result,       \* process_telemetry: the returned dict of series
    pt_pc,           \* process_telemetry: "idle" | "call" | "done" | "raised"
    mt_telemetry,    \* match_telemetry: the input dict of series
    mt_forecast_dates, \* match_telemetry: the Series of forecast datetimes
    mt_matched,      \* match_telemetry: the returned dict of arrays
    mt_dates,        \* match_telemetry: the returned Series of dates
    mt_pc,           \* match_telemetry: "idle" | "call" | "done"
    cm_X,            \* correlate_marginals: the caller's dataframe X
    cm_X_in,         \* correlate_marginals: X as it was passed (for the claims)
    cm_y,            \* correlate_marginals: the caller's samples y
    cm_rho,          \* correlate_marginals: rho, as <<numerator, denominator>>
    cm_y_srtd,       \* correlate_marginals: the working array y_srtd
    cm_range,        \* correlate_marginals: y_srtd[-1] - y_srtd[0] (15 * swp_window)
    cm_i,            \* correlate_marginals: the loop index i
    cm_swaps,        \* correlate_marginals: swaps performed so far
    cm_printed,      \* correlate_marginals: the 'already exists' line was printed
    cm_error,        \* correlate_marginals: the message of the error raised
    cm_pc,           \* correlate_marginals: "idle"|"call"|"loop"|"returned"|"raised"
    ib_cn2,          \* integrate_in_bins: the array cn2
    ib_h,            \* integrate_in_bins: the array h
    ib_edges,        \* integrate_in_bins: the array edges
    ib_J,            \* integrate_in_bins: the list J, then the returned array
    ib_i,            \* integrate_in_bins: the loop index i
    ib_pc,           \* integrate_in_bins: "idle" | "loop" | "done"
    cg_params,       \* convert_to_galsim: the caller's dict params
    cg_params_in,    \* convert_to_galsim: params as first passed (for the claims)
    cg_args,         \* convert_to_galsim: the arguments alt, az, lat, lon
    cg_returned,     \* convert_to_galsim: the value of each return, when made
    cg_pc            \* convert_to_galsim: "idle" | "ready"

sdVars == <<sd_directions, sd_smooth, sd_i, sd_pc>>
ptVars == <<pt_telemetry, pt_result, pt_pc>>
mtVars == <<mt_telemetry, mt_forecast_dates, mt_matched, mt_dates, mt_pc>>
cmVars == <<cm_X, cm_X_in, cm_y, cm_rho, cm_y_srtd, cm_range, cm_i, cm_swaps,
            cm_printed, cm_error, cm_pc>>
ibVars == <<ib_cn2, ib_h, ib_edges, ib_J, ib_i, ib_pc>>
cgVars == <<cg_params, cg_params_in, cg_args, cg_returned, cg_pc>>
vars == <<sdVars, ptVars, mtVars, cmVars, ibVars, cgVars>>

---------------------------------------------------------------------------
(* Helpers shared by the operations.                                       *)

Abs(x) == IF x < 0 THEN -x ELSE x

\* The sum of s[lo..hi], by halves.
RECURSIVE SumBetween(_, _, _)
SumBetween(s, lo, hi) ==
    IF lo > hi THEN 0
    ELSE IF lo = hi THEN s[lo]
    ELSE LET mid == (lo + hi) \div 2
         IN SumBetween(s, lo, mid) + SumBetween(s, mid + 1, hi)

\* sum(s)
SeqSum(s) == SumBetween(s, 1, Len(s))

\* All sequences over S of length lo..hi.
SeqsOf(S, lo, hi) == UNION {[1..k -> S] : k \in lo..hi}

\* The value of a singleton set: operands are bound through singleton sets
\* so that each is computed once, as a value held in a Python variable.
The(S) == CHOOSE x \in S : TRUE

\* s with x put before the first element greater than x (s sorted).
RECURSIVE InsertSorted(_, _)
InsertSorted(x, s) ==
    IF s = <<>> THEN <<x>>
    ELSE IF x < Head(s) THEN <<x>> \o s
    ELSE <<Head(s)>> \o InsertSorted(x, Tail(s))

\* np.sort: the elements of s in ascending order.
RECURSIVE SortSeq(_)
SortSeq(s) == IF s = <<>> THEN <<>> ELSE InsertSorted(Head(s), SortSeq(Tail(s)))

\* The elements of a finite set of integers in ascending order.
RECURSIVE Ascending(_)
Ascending(S) ==
    IF S = {} THEN <<>>
    ELSE LET m == CHOOSE x \in S : \A y \in S : x <= y
         IN <<m>> \o Ascending(S \ {m})

\* How many elements of s equal x.
Count(s, x) == Cardinality({k \in 1..Len(s) : s[k] = x})

\* a and b hold the same values, each as many times.
SameMultiset(a, b) ==
    /\ Len(a) = Len(b)
    /\ \A k \in 1..Len(a) : Count(a, a[k]) = Count(b, a[k])

(* A pandas Series is a sequence of rows [index |-> label, value |-> v], in *)
(* row order.                                                              *)
RECURSIVE Values(_)
Values(series) ==
    IF series = <<>> THEN <<>> ELSE <<Head(series).value>> \o Values(Tail(series))

RECURSIVE Index(_)
Index(series) ==
    IF series = <<>> THEN <<>> ELSE <<Head(series).index>> \o Index(Tail(series))

\* series.loc[labels]: for each label in turn, the rows that carry it.
RECURSIVE Loc(_, _)
Loc(series, labels) ==
    IF labels = <<>> THEN <<>>
    ELSE LET Has(row) == row.index = Head(labels)
         IN SelectSeq(series, Has) \o Loc(series, Tail(labels))

\* The series over the given labels and values with strictly increasing
\* labels and at most n rows.
SeriesOver(Labels, Vals, n) ==
    {s \in SeqsOf([index : Labels, value : Vals], 0, n) :
        \A k \in 1..(Len(s) - 1) : s[k].index < s[k+1].index}

\* Timestamps of telemetry samples, in minutes.
TelTimes == {0, 20, 70}

---------------------------------------------------------------------------
(* smooth_dir(directions)                                                  *)

\* Bounds of the inputs drawn for smooth_dir.
MaxDirs == 6
\* Directions in whole degrees; all but the last are compass directions in
\* [0,360).
DirValues == {10, 170, 350, -750}

\* float64.  smooth_dir is np.zeros(...), a float64 array, and all the sums
\* and differences of the function are float64 operations.  A value is written
\* big * 2^70 + small.  Whole degrees have big = 0: float64 holds them, their
\* sums and their differences exactly.  Multiples of 2^70 have small = 0: there
\* neighbouring float64 values lie 2^18 or more apart, so that the sum of a
\* multiple of 2^70 and a small part (below 2^17) rounds back to the multiple.
Fl(c, s) == [big |-> c, small |-> s]
Whole(n) == Fl(0, n)

\* x + y, rounded to float64
FlAdd(x, y) ==
    The({Fl(a.big + b.big, IF a.big + b.big = 0 THEN a.small + b.small ELSE 0)
         : a \in {x}, b \in {y}})
\* -x, x - y, abs(x)
FlNeg(x) == The({Fl(-a.big, -a.small) : a \in {x}})
FlSub(x, y) == FlAdd(x, FlNeg(y))
FlLess(x, y) ==
    The({a.big < b.big \/ (a.big = b.big /\ a.small < b.small)
         : a \in {x}, b \in {y}})
FlAbs(x) == The({IF FlLess(a, Whole(0)) THEN FlNeg(a) ELSE a : a \in {x}})

\* Directions of magnitude 2^70.
HugeValues == {Fl(1, 0), Fl(-1, 0)}

\* Mutant: only the options the comment names (next pt, +360, -360).
Offsets_Mut == <<360, 0, -360>>

\* np.array([720, 360, 0, -360, -720]), in that order.
Offsets == <<720, 360, 0, -360, -720>>

\* np.argmin: the first (0-based) index of the smallest element.
ArgMin(s) ==
    CHOOSE k \in 1..Len(s) :
        /\ \A m \in 1..Len(s) : ~FlLess(s[m], s[k])
        /\ \A m \in 1..(k-1) : FlLess(s[k], s[m])

\* options = directions[i+1] + np.array([...])
Options(pt) == [k \in 1..Len(Offsets) |-> FlAdd(pt, Whole(Offsets[k]))]

\* The option for the next point that has the smallest jump from `current`.
Smoothest(pt, current) ==
    The({options[ArgMin([k \in 1..Len(options) |->
                            FlAbs(FlSub(options[k], current))])]
         : options \in {Options(pt)}})

\* The sum of the first n elements, added one after the other from the left
\* (the order of np.add.reduce on fewer than 8 elements).
RECURSIVE FlSumTo(_, _)
FlSumTo(s, n) == IF n = 0 THEN Whole(0) ELSE FlAdd(FlSumTo(s, n - 1), s[n])
FlSum(s) == FlSumTo(s, Len(s))

\* smooth_dir.mean() > 180 and smooth_dir.mean() < -180, for a non-empty
\* array: the sign of a mean of magnitude 2^70 / n decides, or the whole sum.
MeanAbove(s, bound) ==
    The({t.big > 0 \/ (t.big = 0 /\ t.small > bound * Len(s))
         : t \in {FlSum(s)}})
MeanBelow(s, bound) ==
    The({t.big < 0 \/ (t.big = 0 /\ t.small < bound * Len(s))
         : t \in {FlSum(s)}})

\* Mutant: the shift is half a turn.
Shifted_Mut(s, by) == [k \in 1..Len(s) |-> FlAdd(s[k], Whole(by \div 2))]

\* smooth_dir -= 360, smooth_dir += 360: float64 additions, element by
\* element; an element of magnitude 2^70 stays as it is.
Shifted(s, by) == [k \in 1..Len(s) |-> FlAdd(s[k], Whole(by))]

sd_Idle ==
    /\ sd_directions = <<>>
    /\ sd_smooth = <<>>
    /\ sd_i = 0
    /\ sd_pc = "idle"

sd_Init ==
    \* arrays of whole degrees, and arrays of directions of magnitude 2^70
    /\ sd_directions \in
          {[k \in 1..Len(d) |-> Whole(d[k])] : d \in SeqsOf(DirValues, 1, MaxDirs)}
          \cup SeqsOf(HugeValues, 1, MaxDirs)
    \* smooth_dir = np.zeros(directions.shape); smooth_dir[0] = directions[0]
    /\ sd_smooth = [k \in 1..Len(sd_directions) |->
                        IF k = 1 THEN sd_directions[1] ELSE Whole(0)]
    /\ sd_i = 0
    /\ sd_pc = "loop"

\* One iteration of `for i in range(smooth_dir.shape[0]-1)`.
sd_Loop ==
    /\ sd_pc = "loop"
    /\ sd_i < Len(sd_smooth) - 1
    /\ sd_smooth' = [sd_smooth EXCEPT ![sd_i + 2] =
                        Smoothest(sd_directions[sd_i + 2], sd_smooth[sd_i + 1])]
    /\ sd_i' = sd_i + 1
    /\ UNCHANGED <<sd_directions, sd_pc>>

sd_LoopEnd ==
    /\ sd_pc = "loop"
    /\ sd_i >= Len(sd_smooth) - 1
    /\ sd_pc' = "down"
    /\ UNCHANGED <<sd_directions, sd_smooth, sd_i>>

\* while smooth_dir.mean() > 180: the test holds, the body is entered
sd_Down ==
    /\ sd_pc = "down"
    /\ MeanAbove(sd_smooth, 180)
    /\ sd_pc' = "down_body"
    /\ UNCHANGED <<sd_directions, sd_smooth, sd_i>>

\* smooth_dir -= 360, and back to the test
sd_DownBody ==
    /\ sd_pc = "down_body"
    /\ sd_smooth' = Shifted(sd_smooth, -360)
    /\ sd_pc' = "down"
    /\ UNCHANGED <<sd_directions, sd_i>>

sd_DownEnd ==
    /\ sd_pc = "down"
    /\ ~MeanAbove(sd_smooth, 180)
    /\ sd_pc' = "up"
    /\ UNCHANGED <<sd_directions, sd_smooth, sd_i>>

\* while smooth_dir.mean() < -180: the test holds, the body is entered
sd_Up ==
    /\ sd_pc = "up"
    /\ MeanBelow(sd_smooth, -180)
    /\ sd_pc' = "up_body"
    /\ UNCHANGED <<sd_directions, sd_smooth, sd_i>>

\* smooth_dir += 360, and back to the test
sd_UpBody ==
    /\ sd_pc = "up_body"
    /\ sd_smooth' = Shifted(sd_smooth, 360)
    /\ sd_pc' = "up"
    /\ UNCHANGED <<sd_directions, sd_i>>

\* return smooth_dir
sd_Return ==
    /\ sd_pc = "up"
    /\ ~MeanBelow(sd_smooth, -180)
    /\ sd_pc' = "done"
    /\ UNCHANGED <<sd_directions, sd_smooth, sd_i>>

sd_Next ==
    \/ sd_Loop
    \/ sd_LoopEnd
    \/ sd_Down
    \/ sd_DownBody
    \/ sd_DownEnd
    \/ sd_Up
    \/ sd_UpBody
    \/ sd_Return

---------------------------------------------------------------------------
(* process_telemetry(telemetry)                                            *)

\* At most this many samples in each input series.
PtMaxSamples == 2
\* Wind speeds in m/s, directions in degrees, temperatures in 1/100 degree C.
PtSpeeds == {0, 5, 40, 41}
PtDirections == {0, 90}
PtTemperatures == {0, 1500}

\* lambda x: x != 0 and x < 40
SpeedLimit == 40
SpeedOk(x) == x # 0 /\ x < SpeedLimit
\* lambda x: x != 0
NonZero(x) == x # 0

\* 273.15, in 1/100 degree
KelvinOffset == 27315

\* The IndexError of Index.__getitem__ on an indexer that is neither of
\* integer nor of boolean type.
IndexError == "arrays used as indices must be of integer or boolean type"

\* series.apply(func) holds booleans when the series has rows; on an empty
\* series no call of func is made and the result is an empty float series.
ApplyGivesBools(series) == series # <<>>

\* tel_speed.index[tel_speed.apply(lambda x: x != 0 and x < 40)]
SpeedMask(series) ==
    LET Pass(row) == SpeedOk(row.value)
    IN IF ApplyGivesBools(series) THEN Index(SelectSeq(series, Pass))
       ELSE IndexError

\* series.index[series.apply(lambda x: x != 0)]
NonZeroMask(series) ==
    LET Pass(row) == NonZero(row.value)
    IN IF ApplyGivesBools(series) THEN Index(SelectSeq(series, Pass))
       ELSE IndexError

\* series + offset
AddToValues(series, offset) ==
    [k \in 1..Len(series) |->
        [index |-> series[k].index, value |-> series[k].value + offset]]

\* process_telemetry raises when one of the three masks cannot be taken.
Raises(telemetry) ==
    \/ ~ApplyGivesBools(telemetry.wind_speed)
    \/ ~ApplyGivesBools(telemetry.wind_direction)
    \/ ~ApplyGivesBools(telemetry.temperature)

\* The dict returned, or the error raised at the first mask that fails.
process_telemetry(telemetry) ==
    LET tel_dir == telemetry.wind_direction
        tel_speed == telemetry.wind_speed
        tel_temp == telemetry.temperature
        speed_mask == SpeedMask(tel_speed)
        dir_mask == NonZeroMask(tel_dir)
        temp_mask == NonZeroMask(tel_temp)
    IN IF Raises(telemetry) THEN [raised |-> IndexError]
       ELSE [phi |-> Loc(tel_dir, dir_mask),
             speed |-> Loc(tel_speed, speed_mask),
             t |-> AddToValues(Loc(tel_temp, temp_mask), KelvinOffset)]

pt_Idle ==
    /\ pt_telemetry = <<>>
    /\ pt_result = <<>>
    /\ pt_pc = "idle"

pt_Init ==
    /\ pt_telemetry \in
         [wind_direction : SeriesOver(TelTimes, PtDirections, PtMaxSamples),
          wind_speed : SeriesOver(TelTimes, PtSpeeds, PtMaxSamples),
          temperature : SeriesOver(TelTimes, PtTemperatures, PtMaxSamples)]
    /\ pt_result = <<>>
    /\ pt_pc = "call"

pt_Call ==
    /\ pt_pc = "call"
    /\ pt_result' = process_telemetry(pt_telemetry)
    /\ pt_pc' = IF Raises(pt_telemetry) THEN "raised" ELSE "done"
    /\ UNCHANGED pt_telemetry

pt_Next == pt_Call

---------------------------------------------------------------------------
(* match_telemetry(telemetry, forecast_dates)                              *)

\* At most this many samples in each series, and this many forecast dates.
MtMaxSamples == 3
MtMaxDates == 2
\* Forecast datetimes in minutes.
FcTimes == {7, 40}
\* Timestamps in minutes of the samples of each series: minutes 0, 5 and 10
\* lie inside the window of minute 7 and minute 37 exactly 30 minutes from it;
\* minute 37 lies inside the window of minute 40 and minute 10 exactly 30
\* minutes from it.
MtSpeedTimes == {0, 5, 10, 37}
MtDirectionTimes == {5, 10, 37}
MtTemperatureTimes == {5, 37}
\* Values of the three series.
MtSpeeds == {2, 4, 10}
MtDirections == {90, 270}
MtTemperatures == {280}

\* pd.Timedelta('30min'), in minutes
HalfWindow == 30

\* Mutant: the window is closed, a sample 30 minutes away is inside.
WindowIds_Mut(series, date) ==
    LET Near(row) == Abs(date - row.index) <= HalfWindow
    IN Index(SelectSeq(series, Near))

\* series.index[abs(date - series.index) < pd.Timedelta('30min')]
WindowIds(series, date) ==
    LET Near(row) == Abs(date - row.index) < HalfWindow
    IN Index(SelectSeq(series, Near))

\* np.median of a non-empty list: the middle of the sorted values, or the
\* mean of the two middle ones (exact here: the values drawn are even).
Median(xs) ==
    LET srtd == SortSeq(xs)
        n == Len(xs)
    IN IF n % 2 = 1 THEN srtd[(n + 1) \div 2]
       ELSE (srtd[n \div 2] + srtd[(n \div 2) + 1]) \div 2

\* np.cos and np.sin of an angle in degrees that is a multiple of 90.
CosDeg(a) == CASE a % 360 = 0 -> 1 [] a % 360 = 180 -> -1 [] OTHER -> 0
SinDeg(a) == CASE a % 360 = 90 -> 1 [] a % 360 = 270 -> -1 [] OTHER -> 0

\* len(speed_ids[i]) != 0 and len(dir_ids[i]) != 0 and len(temp_ids[i]) != 0
KeepTest(speed_ids, dir_ids, temp_ids) ==
    Len(speed_ids) # 0 /\ Len(dir_ids) # 0 /\ Len(temp_ids) # 0

\* Mutant: the dates come back whole, not subselected.
KeptDates_Mut(forecast_dates, ids_to_keep) == forecast_dates

\* forecast_dates[ids_to_keep]
KeptDates(forecast_dates, ids_to_keep) == Loc(forecast_dates, ids_to_keep)

\* The pair (matched dict, dates) that match_telemetry returns.  forecast_dates
\* is a Series with the default index 0..n-1, so forecast_dates[i] is its
\* i-th value and forecast_dates[ids_to_keep] its rows with those labels.
match_telemetry(telemetry, forecast_dates) ==
    LET n == Len(forecast_dates)
        speed == telemetry.speed
        direction == telemetry.phi
        temp == telemetry.t
        date(i) == forecast_dates[i + 1].value
        speed_ids(i) == WindowIds(speed, date(i))
        dir_ids(i) == WindowIds(direction, date(i))
        temp_ids(i) == WindowIds(temp, date(i))
        \* [i for i in range(n) if ...]: 0-based positions, ascending
        ids_to_keep ==
            Ascending({i \in 0..(n - 1) :
                          KeepTest(speed_ids(i), dir_ids(i), temp_ids(i))})
        matched_s == [k \in 1..Len(ids_to_keep) |->
                        Median(Values(Loc(speed, speed_ids(ids_to_keep[k]))))]
        matched_d == [k \in 1..Len(ids_to_keep) |->
                        Median(Values(Loc(direction, dir_ids(ids_to_keep[k]))))]
        matched_t == [k \in 1..Len(ids_to_keep) |->
                        Median(Values(Loc(temp, temp_ids(ids_to_keep[k]))))]
        v == [k \in 1..Len(matched_s) |-> matched_s[k] * CosDeg(matched_d[k] - 180)]
        u == [k \in 1..Len(matched_s) |-> matched_s[k] * SinDeg(matched_d[k] - 180)]
    IN <<[speed |-> matched_s, phi |-> matched_d, t |-> matched_t,
          u |-> u, v |-> v],
         KeptDates(forecast_dates, ids_to_keep)>>

\* pd.Series(dates): the rows carry the labels 0..n-1.
AsSeries(dates) == [k \in 1..Len(dates) |-> [index |-> k - 1, value |-> dates[k]]]

mt_Idle ==
    /\ mt_telemetry = <<>>
    /\ mt_forecast_dates = <<>>
    /\ mt_matched = <<>>
    /\ mt_dates = <<>>
    /\ mt_pc = "idle"

mt_Init ==
    /\ mt_telemetry \in
         [speed : SeriesOver(MtSpeedTimes, MtSpeeds, MtMaxSamples),
          phi : SeriesOver(MtDirectionTimes, MtDirections, MtMaxSamples),
          t : SeriesOver(MtTemperatureTimes, MtTemperatures, MtMaxSamples)]
    /\ mt_forecast_dates \in {AsSeries(d) : d \in SeqsOf(FcTimes, 0, MtMaxDates)}
    /\ mt_matched = <<>>
    /\ mt_dates = <<>>
    /\ mt_pc = "call"

mt_Call ==
    /\ mt_pc = "call"
    /\ LET r == match_telemetry(mt_telemetry, mt_forecast_dates)
       IN /\ mt_matched' = r[1]
          /\ mt_dates' = r[2]
    /\ mt_pc' = "done"
    /\ UNCHANGED <<mt_telemetry, mt_forecast_dates>>

mt_Next == mt_Call

---------------------------------------------------------------------------
(* correlate_marginals(X, y, rho, rng)                                     *)
(*                                                                         *)
(* The dataframe X is [columns |-> names in order, rows |-> rows in order], *)
(* a row being a function from the column names.  rho is a fraction.  The  *)
(* generator rng is a free choice among the valid indices.                 *)

\* At most this many samples (rows of X, elements of y).
CmMaxN == 3
\* Values of y; the speed column is 1..N ascending, N..1 descending or constant.
CmYValues == {0, 1, 30}
CmRhos == {<<1, 2>>, <<7, 8>>}
\* The values of an existing 'j_gl' column, left by an earlier call.
CmStaleValues == {9}

\* swp_window = (y_srtd[-1] - y_srtd[0]) / 15
WindowDivisor == 15
\* for i in range(100 * N)
LoopsPerSample == 100

DidNotReach == "did not reach desired correlation coefficient!"
ChoiceOnEmpty == "'a' cannot be empty unless no samples are taken"

\* X[name]: the values of a column, in row order.
Column(X, name) == [k \in 1..Len(X.rows) |-> X.rows[k][name]]

\* rows with `row` put after the last row whose speed is not greater.
RECURSIVE InsertRow(_, _)
InsertRow(row, rows) ==
    IF rows = <<>> THEN <<row>>
    ELSE IF row.speed < Head(rows).speed THEN <<row>> \o rows
    ELSE <<Head(rows)>> \o InsertRow(row, Tail(rows))

RECURSIVE SortRows(_)
SortRows(rows) ==
    IF rows = <<>> THEN <<>>
    ELSE InsertRow(rows[Len(rows)], SortRows(SubSeq(rows, 1, Len(rows) - 1)))

\* X.sort_values(by=['speed'], inplace=True): whole rows move, ties keep
\* their order.
SortValuesBySpeed(X) == [X EXCEPT !.rows = SortRows(X.rows)]

\* np.where(abs(y_srtd - y_srtd[i_first]) < swp_window), 0-based indices.
ValidIndices(y_srtd, i_first, range) ==
    {k \in 0..(Len(y_srtd) - 1) :
        WindowDivisor * Abs(y_srtd[k + 1] - y_srtd[i_first + 1]) < range}

\* Mutant: the second assignment reads the overwritten element.
Swapped_Mut(y_srtd, i_first, i_swp) ==
    [y_srtd EXCEPT ![i_first + 1] = y_srtd[i_swp + 1]]

\* y_srtd[i_first], y_srtd[i_swp] = y_srtd[i_swp], y_srtd[i_first]
Swapped(y_srtd, i_first, i_swp) ==
    [y_srtd EXCEPT ![i_first + 1] = y_srtd[i_swp + 1],
                   ![i_swp + 1] = y_srtd[i_first + 1]]

SumOfProducts(a, b) == SeqSum([k \in 1..Len(a) |-> a[k] * b[k]])

\* n times the covariance sum: n * sum(a b) - sum(a) sum(b).
Covariance(a, b) == Len(a) * SumOfProducts(a, b) - SeqSum(a) * SeqSum(b)

\* np.corrcoef(a, b)[0][1] <= rho, for rho = rho[1] / rho[2] with rho[2] > 0.
\* The coefficient is cov / sqrt(va * vb); with a constant column it is nan,
\* and the comparison is false.
CorrLeq(a, b, rho) ==
    LET cov == Covariance(a, b)
        vv == Covariance(a, a) * Covariance(b, b)
        lhs == cov * rho[2]
        lhs2 == lhs * lhs
        rhs2 == rho[1] * rho[1] * vv
    IN /\ vv # 0
       /\ IF lhs <= 0
          THEN rho[1] >= 0 \/ lhs2 >= rhs2
          ELSE rho[1] > 0 /\ lhs2 <= rhs2

\* X.insert(loc=2, column='j_gl', value=y_srtd) for X without that column.
Inserted(X, y_srtd) ==
    [columns |-> SubSeq(X.columns, 1, 2) \o <<"j_gl">>
                    \o SubSeq(X.columns, 3, Len(X.columns)),
     rows |-> [k \in 1..Len(X.rows) |->
                 [c \in DOMAIN X.rows[k] \cup {"j_gl"} |->
                     IF c = "j_gl" THEN y_srtd[k] ELSE X.rows[k][c]]]]

HasColumn(X, name) == \E k \in 1..Len(X.columns) : X.columns[k] = name

\* The dataframes drawn: columns speed and h (h numbers the rows as passed),
\* and, after an earlier call, j_gl.
SpeedShapes(n) ==
    {[k \in 1..n |-> k], [k \in 1..n |-> n + 1 - k], [k \in 1..n |-> 2]}

FreshFrame(speeds) ==
    [columns |-> <<"speed", "h">>,
     rows |-> [k \in 1..Len(speeds) |-> [speed |-> speeds[k], h |-> k]]]

UsedFrame(speeds, stale) ==
    [columns |-> <<"speed", "h", "j_gl">>,
     rows |-> [k \in 1..Len(speeds) |->
                 [speed |-> speeds[k], h |-> k, j_gl |-> stale]]]

cm_Idle ==
    /\ cm_X = <<>>
    /\ cm_X_in = <<>>
    /\ cm_y = <<>>
    /\ cm_rho = <<0, 1>>
    /\ cm_y_srtd = <<>>
    /\ cm_range = 0
    /\ cm_i = 0
    /\ cm_swaps = 0
    /\ cm_printed = FALSE
    /\ cm_error = ""
    /\ cm_pc = "idle"

cm_Init ==
    /\ \E n \in 1..CmMaxN :
          /\ cm_X \in {FreshFrame(sp) : sp \in SpeedShapes(n)}
                          \cup {UsedFrame(sp, old) :
                                    sp \in SpeedShapes(n), old \in CmStaleValues}
          /\ cm_y \in [1..n -> CmYValues]
    /\ cm_X_in = cm_X
    /\ cm_rho \in CmRhos
    /\ cm_y_srtd = <<>>
    /\ cm_range = 0
    /\ cm_i = 0
    /\ cm_swaps = 0
    /\ cm_printed = FALSE
    /\ cm_error = ""
    /\ cm_pc = "call"

\* X.sort_values(...); y_srtd = np.sort(y); swp_window = ...; N = len(y)
cm_Start ==
    /\ cm_pc = "call"
    /\ cm_X' = SortValuesBySpeed(cm_X)
    /\ cm_y_srtd' = SortSeq(cm_y)
    /\ cm_range' = SortSeq(cm_y)[Len(cm_y)] - SortSeq(cm_y)[1]
    /\ cm_pc' = "loop"
    /\ UNCHANGED <<cm_X_in, cm_y, cm_rho, cm_i, cm_swaps, cm_printed, cm_error>>

\* rng.choice(valid_indices.flatten()) on an empty array raises ValueError.
cm_ChoiceFails ==
    /\ cm_pc = "loop"
    /\ cm_i < LoopsPerSample * Len(cm_y)
    /\ ValidIndices(cm_y_srtd, cm_i % Len(cm_y), cm_range) = {}
    /\ cm_error' = ChoiceOnEmpty
    /\ cm_pc' = "raised"
    /\ UNCHANGED <<cm_X, cm_X_in, cm_y, cm_rho, cm_y_srtd, cm_range, cm_i,
                   cm_swaps, cm_printed>>

\* One iteration whose swap leaves the coefficient above rho.
cm_SwapAndGoOn ==
    /\ cm_pc = "loop"
    /\ cm_i < LoopsPerSample * Len(cm_y)
    /\ \E i_swp \in ValidIndices(cm_y_srtd, cm_i % Len(cm_y), cm_range) :
          LET swapped == Swapped(cm_y_srtd, cm_i % Len(cm_y), i_swp)
          IN /\ ~CorrLeq(Column(cm_X, "speed"), swapped, cm_rho)
             /\ cm_y_srtd' = swapped
    /\ cm_i' = cm_i + 1
    /\ cm_swaps' = cm_swaps + 1
    /\ UNCHANGED <<cm_X, cm_X_in, cm_y, cm_rho, cm_range, cm_printed, cm_error,
                   cm_pc>>

\* One iteration whose swap brings the coefficient to rho or below: insert the
\* column (or print, when it exists), break and return X.
cm_SwapAndReturn ==
    /\ cm_pc = "loop"
    /\ cm_i < LoopsPerSample * Len(cm_y)
    /\ \E i_swp \in ValidIndices(cm_y_srtd, cm_i % Len(cm_y), cm_range) :
          LET swapped == Swapped(cm_y_srtd, cm_i % Len(cm_y), i_swp)
          IN /\ CorrLeq(Column(cm_X, "speed"), swapped, cm_rho)
             /\ cm_y_srtd' = swapped
             /\ IF HasColumn(cm_X, "j_gl")
                THEN cm_printed' = TRUE /\ cm_X' = cm_X
                ELSE cm_printed' = cm_printed /\ cm_X' = Inserted(cm_X, swapped)
    /\ cm_swaps' = cm_swaps + 1
    /\ cm_pc' = "returned"
    /\ UNCHANGED <<cm_X_in, cm_y, cm_rho, cm_range, cm_i, cm_error>>

\* The for loop ran out: raise ValueError('did not reach ...').
cm_Exhausted ==
    /\ cm_pc = "loop"
    /\ cm_i >= LoopsPerSample * Len(cm_y)
    /\ cm_error' = DidNotReach
    /\ cm_pc' = "raised"
    /\ UNCHANGED <<cm_X, cm_X_in, cm_y, cm_rho, cm_y_srtd, cm_range, cm_i,
                   cm_swaps, cm_printed>>

cm_Next ==
    \/ cm_Start
    \/ cm_ChoiceFails
    \/ cm_SwapAndGoOn
    \/ cm_SwapAndReturn
    \/ cm_Exhausted

---------------------------------------------------------------------------
(* integrate_in_bins(cn2, h, edges)                                       *)
(*                                                                         *)
(* Altitudes are held in metres (1/1000 km), so that the 1000 samples of   *)
(* the edges drawn fall on integers.  The profiles drawn are constant: the *)
(* exact-fit spline through a constant log(cn2) is that constant.          *)

\* At most this many edges between the first and the last.
IbMaxInner == 2
\* The first and the last edge, 1.998 km apart: a sample every 2 m.
IbOuterEdges == <<0, 1998>>
IbInnerEdges == {1, 2, 3, 4, 1000}
IbCn2Values == {1, 2, 3}
\* The altitudes of the cn2 values.
IbKnots == <<0, 500, 1500, 1998>>

\* np.linspace(edges[0], edges[-1], 1000)
NumSamples == 1000
Linspace(start, stop, num) ==
    [k \in 1..num |-> start + ((k - 1) * (stop - start)) \div (num - 1)]

\* Mutant: the samples on the two boundaries count as inside.
BinSamples_Mut(h_samples, lo, hi) ==
    LET Inside(x) == x <= hi /\ x >= lo IN SelectSeq(h_samples, Inside)

\* h_samples[(h_samples < edges[i+1]) & (h_samples > edges[i])]
BinSamples(h_samples, lo, hi) ==
    LET Inside(x) == x < hi /\ x > lo IN SelectSeq(h_samples, Inside)

\* np.log and np.exp, kept symbolic: exp undoes log.
Log(ys) == [k \in 1..Len(ys) |-> <<"log", ys[k]>>]
Exp(ls) == [k \in 1..Len(ls) |-> ls[k][2]]

\* interpolate(x, y, new_x, ddz=False, s=0) for a constant y: the spline
\* UnivariateSpline(x, y, s=0) evaluated at new_x, empty for an empty new_x.
interpolate(x, y, new_x) == [k \in 1..Len(new_x) |-> y[1]]

\* scipy.integrate.trapz(y, x): sum of (x[k+1] - x[k]) (y[k+1] + y[k]) / 2,
\* which is 0 for fewer than two points.
Trapz(y, x) ==
    SeqSum([k \in 1..(Len(x) - 1) |-> (x[k+1] - x[k]) * (y[k+1] + y[k])]) \div 2

\* J = np.array(J) * 1000, the integrals being per km: over metres, / 1000.
KmToM == 1000
Rescaled(J) == [k \in 1..Len(J) |-> (J[k] * KmToM) \div 1000]

\* The edge arrays drawn: strictly increasing, from the first to the last edge.
IbEdgeArrays ==
    {<<IbOuterEdges[1]>>} \cup
    {<<IbOuterEdges[1]>> \o Ascending(inner) \o <<IbOuterEdges[2]>> :
        inner \in {S \in SUBSET IbInnerEdges : Cardinality(S) <= IbMaxInner}}

ib_Idle ==
    /\ ib_cn2 = <<>>
    /\ ib_h = <<>>
    /\ ib_edges = <<>>
    /\ ib_J = <<>>
    /\ ib_i = 0
    /\ ib_pc = "idle"

ib_Init ==
    /\ \E c \in IbCn2Values : ib_cn2 = [k \in 1..Len(IbKnots) |-> c]
    /\ ib_h = IbKnots
    /\ ib_edges \in IbEdgeArrays
    /\ ib_J = <<>>
    /\ ib_i = 0
    /\ ib_pc = "loop"

\* One iteration of `for i in range(len(edges)-1)`.
ib_Bin ==
    /\ ib_pc = "loop"
    /\ ib_i < Len(ib_edges) - 1
    /\ LET h_samples == Linspace(ib_edges[1], ib_edges[Len(ib_edges)], NumSamples)
           h_i == BinSamples(h_samples, ib_edges[ib_i + 1], ib_edges[ib_i + 2])
           cn2_i == Exp(interpolate(ib_h, Log(ib_cn2), h_i))
       IN ib_J' = Append(ib_J, Trapz(cn2_i, h_i))
    /\ ib_i' = ib_i + 1
    /\ UNCHANGED <<ib_cn2, ib_h, ib_edges, ib_pc>>

\* J = np.array(J) * 1000; return J
ib_Return ==
    /\ ib_pc = "loop"
    /\ ib_i >= Len(ib_edges) - 1
    /\ ib_J' = Rescaled(ib_J)
    /\ ib_pc' = "done"
    /\ UNCHANGED <<ib_cn2, ib_h, ib_edges, ib_i>>

ib_Next ==
    \/ ib_Bin
    \/ ib_Return

---------------------------------------------------------------------------
(* convert_to_galsim(params, alt, az, lat, lon)                           *)
(*                                                                         *)
(* Numbers are exact fractions <<numerator, denominator>>.  An angle is    *)
(* held by its cosine and sine, [cos |-> c, sin |-> s]; the angles drawn   *)
(* have rational ones (0, 90, 180 degrees and the angles of the 3-4-5      *)
(* triangle), and the winds drawn lie along north or east, so that the     *)
(* square roots and arctangents of the code are exact.                     *)

\* At most this many layers in params, and this many calls on one dict.
CgMaxLayers == 2
CgMaxCalls == 2

RECURSIVE Gcd(_, _)
Gcd(a, b) == The({IF y = 0 THEN x ELSE Gcd(y, x % y) : x \in {a}, y \in {b}})

\* The fraction n / d (d # 0) in lowest terms with a positive denominator.
Frac(n, d) ==
    The({LET g == Gcd(Abs(x), Abs(y))
             sign == IF y < 0 THEN -1 ELSE 1
         IN <<(sign * x) \div g, Abs(y) \div g>> : x \in {n}, y \in {d}})

FAdd(a, b) ==
    The({Frac(x[1] * y[2] + y[1] * x[2], x[2] * y[2]) : x \in {a}, y \in {b}})
FMul(a, b) == The({Frac(x[1] * y[1], x[2] * y[2]) : x \in {a}, y \in {b}})
FNeg(a) == The({<<-x[1], x[2]>> : x \in {a}})
FInv(a) == The({Frac(x[2], x[1]) : x \in {a}})
\* The non-negative square root of a fraction that is a square.
FSqrt(a) ==
    The({<<CHOOSE r \in 0..x[1] : r * r = x[1],
           CHOOSE r \in 1..x[2] : r * r = x[2]>> : x \in {a}})

Zero == <<0, 1>>
One == <<1, 1>>

\* Vectors of three fractions.
VAdd(a, b) == The({[k \in 1..3 |-> FAdd(x[k], y[k])] : x \in {a}, y \in {b}})
VScale(c, a) == The({[k \in 1..3 |-> FMul(z, x[k])] : z \in {c}, x \in {a}})
\* np.dot, np.cross
Dot(a, b) ==
    The({FAdd(FMul(x[1], y[1]), FAdd(FMul(x[2], y[2]), FMul(x[3], y[3])))
         : x \in {a}, y \in {b}})
Cross(a, b) ==
    The({<<FAdd(FMul(x[2], y[3]), FNeg(FMul(x[3], y[2]))),
           FAdd(FMul(x[3], y[1]), FNeg(FMul(x[1], y[3]))),
           FAdd(FMul(x[1], y[2]), FNeg(FMul(x[2], y[1])))>>
         : x \in {a}, y \in {b}})

Angle(c, s) == [cos |-> c, sin |-> s]
Deg0 == Angle(One, Zero)
Deg90 == Angle(Zero, One)
Deg180 == Angle(FNeg(One), Zero)
\* asin(3/5) = 36.87 degrees and asin(4/5) = 53.13 degrees
DegAsin35 == Angle(<<4, 5>>, <<3, 5>>)
DegAsin45 == Angle(<<3, 5>>, <<4, 5>>)
\* 90 - a
Complement(a) == Angle(a.sin, a.cos)

\* get_obs_nez(lat, lon): unit vectors along the rows north, east, zenith.
get_obs_nez(lat, lon) ==
    The({<<north, Cross(north, zenith), zenith>>
         : north \in {<<FNeg(FMul(lon.cos, lat.sin)),
                        FNeg(FMul(lon.sin, lat.sin)), lat.cos>>},
           zenith \in {<<FMul(lon.cos, lat.cos), FMul(lon.sin, lat.cos),
                         lat.sin>>}})

\* boresight = sin(alt) * Z + cos(alt) * compass_dir, where
\* compass_dir = cos(az) * N + sin(az) * E and nez = <<N, E, Z>>.
Boresight(alt, az, nez) ==
    The({VAdd(VScale(alt.sin, n[3]),
              VScale(alt.cos, VAdd(VScale(az.cos, n[1]), VScale(az.sin, n[2]))))
         : n \in {nez}})

\* east = np.cross(ncp, boresight), normalised.
SkyEast(boresight) ==
    The({VScale(FInv(FSqrt(Dot(east, east))), east)
         : east \in {Cross(<<Zero, Zero, One>>, boresight)}})

\* The rows north, east, boresight of sky_nez.
SkyNez(boresight, east) ==
    The({<<Cross(b, e), e, b>> : b \in {boresight}, e \in {east}})

\* get_both_nez(alt, az, lat, lon): <<obs_nez, sky_nez>>.
get_both_nez(alt, az, lat, lon) ==
    The({<<nez, The({SkyNez(b, SkyEast(b)) : b \in {Boresight(alt, az, nez)}})>>
         : nez \in {get_obs_nez(lat, lon)}})

\* np.hypot(a, b)
Hypot(a, b) ==
    The({FSqrt(FAdd(FMul(x, x), FMul(y, y))) : x \in {a}, y \in {b}})

\* np.arctan2(u, v) * (180/np.pi) for a vector along an axis.
ArcTan2Deg(u, v) ==
    CASE u[1] = 0 /\ v[1] >= 0 -> 0
      [] u[1] = 0 /\ v[1] < 0 -> 180
      [] u[1] > 0 /\ v[1] = 0 -> 90
      [] u[1] < 0 /\ v[1] = 0 -> -90

\* to_direction(u, v): (d + 180) % 360
to_direction(u, v) == <<(ArcTan2Deg(u, v) + 180) % 360, 1>>

\* Mutant: the conversion works on a copy; the caller's dict stays as it was.
AfterCall_Mut(params, converted) == params

\* params['v'], ... = ...: the assignments write into the caller's dict, which
\* holds the converted entries after the call.
AfterCall(params, converted) == converted

\* sky_wind = np.dot(sky_nez, np.dot(obs_nez.T[:, :2], [v, u])) per layer:
\* the wind v * N + u * E, projected on the rows of sky_nez.
SkyWinds(params, both) ==
    The({[k \in 1..Len(params.v) |->
             The({[r \in 1..3 |-> Dot(nez[2][r], obs_wind)]
                  : obs_wind \in {VAdd(VScale(params.v[k], nez[1][1]),
                                       VScale(params.u[k], nez[1][2]))}})]
         : nez \in {both}})

\* The dict that convert_to_galsim builds and returns.
convert_to_galsim(params, alt, az, lat, lon) ==
    The({[v |-> [k \in 1..Len(sky) |-> sky[k][1]],
          u |-> [k \in 1..Len(sky) |-> sky[k][2]],
          speed |-> [k \in 1..Len(sky) |-> Hypot(sky[k][1], sky[k][2])],
          phi |-> [k \in 1..Len(sky) |-> to_direction(sky[k][2], sky[k][1])],
          h |-> [k \in 1..Len(params.h) |-> FMul(params.h[k], sec_zenith)],
          edges |-> [k \in 1..Len(params.edges) |->
                        FMul(params.edges[k], sec_zenith)],
          j |-> [k \in 1..Len(params.j) |-> FMul(params.j[k], sec_zenith)]]
         : sky \in {SkyWinds(params, get_both_nez(alt, az, lat, lon))},
           sec_zenith \in {FInv(Complement(alt).cos)}})

\* The winds <<v, u>> of a layer, and the parameter sets drawn: n layers at
\* 1, 2, ... km between the edges 0, 1, ..., n, each with j = 1.
CgWinds == {<<<<5, 1>>, Zero>>, <<Zero, <<5, 1>>>>, <<<<-5, 1>>, Zero>>}
ParamsOf(winds) ==
    LET n == Len(winds)
    IN [v |-> [k \in 1..n |-> winds[k][1]],
        u |-> [k \in 1..n |-> winds[k][2]],
        speed |-> [k \in 1..n |-> Hypot(winds[k][1], winds[k][2])],
        phi |-> [k \in 1..n |-> to_direction(winds[k][2], winds[k][1])],
        h |-> [k \in 1..n |-> <<k, 1>>],
        edges |-> [k \in 1..(n + 1) |-> <<k - 1, 1>>],
        j |-> [k \in 1..n |-> One]]

cg_Idle ==
    /\ cg_params = <<>>
    /\ cg_params_in = <<>>
    /\ cg_args = <<>>
    /\ cg_returned = <<>>
    /\ cg_pc = "idle"

cg_Init ==
    /\ cg_params \in {ParamsOf(w) : w \in SeqsOf(CgWinds, 1, CgMaxLayers)}
    /\ cg_params_in = cg_params
    /\ cg_args \in [alt : {Deg90, DegAsin35, DegAsin45},
                    az : {Deg0, Deg90, Deg180},
                    lat : {Deg0},
                    lon : {Deg0, Deg90}]
    /\ cg_returned = <<>>
    /\ cg_pc = "ready"

\* A call convert_to_galsim(params, alt, az, lat, lon) on the caller's dict.
cg_Call ==
    /\ cg_pc = "ready"
    /\ Len(cg_returned) < CgMaxCalls
    /\ LET converted == convert_to_galsim(cg_params, cg_args.alt, cg_args.az,
                                          cg_args.lat, cg_args.lon)
       IN /\ cg_params' = AfterCall(cg_params, converted)
          /\ cg_returned' = Append(cg_returned, converted)
    /\ UNCHANGED <<cg_params_in, cg_args, cg_pc>>

cg_Next == cg_Call

---------------------------------------------------------------------------
(* Specifications: one per operation; the other operations stay idle.      *)

InitSmooth ==
    sd_Init /\ pt_Idle /\ mt_Idle /\ cm_Idle /\ ib_Idle /\ cg_Idle
NextSmooth ==
    sd_Next /\ UNCHANGED <<ptVars, mtVars, cmVars, ibVars, cgVars>>
SpecSmooth == InitSmooth /\ [][NextSmooth]_vars
\* The interpreter runs the function to its return: every enabled step is taken.
FairSpecSmooth == InitSmooth /\ [][NextSmooth]_vars /\ WF_vars(NextSmooth)

InitProcess ==
    pt_Init /\ sd_Idle /\ mt_Idle /\ cm_Idle /\ ib_Idle /\ cg_Idle
NextProcess ==
    pt_Next /\ UNCHANGED <<sdVars, mtVars, cmVars, ibVars, cgVars>>
SpecProcess == InitProcess /\ [][NextProcess]_vars

InitMatch ==
    mt_Init /\ sd_Idle /\ pt_Idle /\ cm_Idle /\ ib_Idle /\ cg_Idle
NextMatch ==
    mt_Next /\ UNCHANGED <<sdVars, ptVars, cmVars, ibVars, cgVars>>
SpecMatch == InitMatch /\ [][NextMatch]_vars

InitCorrelate ==
    cm_Init /\ sd_Idle /\ pt_Idle /\ mt_Idle /\ ib_Idle /\ cg_Idle
NextCorrelate ==
    cm_Next /\ UNCHANGED <<sdVars, ptVars, mtVars, ibVars, cgVars>>
SpecCorrelate == InitCorrelate /\ [][NextCorrelate]_vars

InitBins ==
    ib_Init /\ sd_Idle /\ pt_Idle /\ mt_Idle /\ cm_Idle /\ cg_Idle
NextBins ==
    ib_Next /\ UNCHANGED <<sdVars, ptVars, mtVars, cmVars, cgVars>>
SpecBins == InitBins /\ [][NextBins]_vars

InitGalsim ==
    cg_Init /\ sd_Idle /\ pt_Idle /\ mt_Idle /\ cm_Idle /\ ib_Idle
NextGalsim ==
    cg_Next /\ UNCHANGED <<sdVars, ptVars, mtVars, cmVars, ibVars>>
SpecGalsim == InitGalsim /\ [][NextGalsim]_vars

---------------------------------------------------------------------------
(* Claims about smooth_dir.                                                *)

\* Whole degrees, as against directions of magnitude 2^70.
WholeDegrees(s) == \A k \in 1..Len(s) : s[k].big = 0
AllCompass(s) ==
    \A k \in 1..Len(s) : s[k].big = 0 /\ 0 <= s[k].small /\ s[k].small < 360
\* The difference of two neighbours is at most `most` degrees in magnitude.
JumpAtMost(x, y, most) ==
    x.big = y.big /\ Abs(x.small - y.small) <= most
NoBigJump(s) == \A k \in 1..(Len(s) - 1) : JumpAtMost(s[k+1], s[k], 180)

\* C5 (as stated): for every non-empty sequence of compass directions in
\* [0, 360), of any length, the output of smooth_dir has no pair of adjacent
\* elements whose difference exceeds 180 degrees in magnitude.
C5_AnyLength ==
    (sd_pc = "done" /\ AllCompass(sd_directions)) => NoBigJump(sd_smooth)

\* C5 (amended): the same, for sequences of at most 5 compass directions; the
\* five options reach only 720 degrees away from the input point.
C5_UpToFive ==
    (sd_pc = "done" /\ AllCompass(sd_directions) /\ Len(sd_directions) <= 5)
        => NoBigJump(sd_smooth)

\* A returned five-element compass sequence in which a wrap was removed.
C5_Witness ==
    /\ sd_pc = "done"
    /\ AllCompass(sd_directions)
    /\ Len(sd_directions) = 5
    /\ \E k \in 1..(Len(sd_directions) - 1) :
          /\ ~JumpAtMost(sd_directions[k+1], sd_directions[k], 180)
          /\ JumpAtMost(sd_smooth[k+1], sd_smooth[k], 180)

\* The sum of the whole-degree parts and of the 2^70 parts of s.
SmallSum(s) == SeqSum([k \in 1..Len(s) |-> s[k].small])
BigSum(s) == SeqSum([k \in 1..Len(s) |-> s[k].big])

\* The returned array has the length of the input, a mean in [-180, 180],
\* and elements an integer multiple of 360 away from the input's.
SmoothResultOk ==
    /\ Len(sd_smooth) = Len(sd_directions)
    /\ BigSum(sd_smooth) = 0
    /\ SmallSum(sd_smooth) <= 180 * Len(sd_smooth)
    /\ SmallSum(sd_smooth) >= -180 * Len(sd_smooth)
    /\ \A k \in 1..Len(sd_smooth) :
          /\ sd_smooth[k].big = sd_directions[k].big
          /\ (sd_smooth[k].small - sd_directions[k].small) % 360 = 0

---------------------------------------------------------------------------
(* Claims about process_telemetry.                                         *)

\* C8: process_telemetry masks each series on its own: 'speed' holds exactly
\* the input wind speeds that are not zero and not greater than 40 m/s, 'phi'
\* exactly the input wind directions that are not zero, 't' exactly the input
\* temperatures that are not zero, each raised by 273.15; every kept value
\* keeps its timestamp and its order.
C8_MasksAsDocumented ==
    pt_pc = "done" =>
        LET SpeedKept(row) == row.value # 0 /\ ~(row.value > 40)
            Kept(row) == row.value # 0
        IN /\ pt_result.speed = SelectSeq(pt_telemetry.wind_speed, SpeedKept)
           /\ pt_result.phi = SelectSeq(pt_telemetry.wind_direction, Kept)
           /\ pt_result.t =
                AddToValues(SelectSeq(pt_telemetry.temperature, Kept), 27315)

---------------------------------------------------------------------------
(* Claims about match_telemetry.                                           *)

\* The 0-based positions of the forecast dates that have, in each of the
\* three series, a sample less than 30 minutes away.
DatesWithOverlap ==
    LET Covered(series, date) ==
            \E k \in 1..Len(series) : Abs(date - series[k].index) < 30
    IN {i \in 0..(Len(mt_forecast_dates) - 1) :
            /\ Covered(mt_telemetry.speed, mt_forecast_dates[i + 1].value)
            /\ Covered(mt_telemetry.phi, mt_forecast_dates[i + 1].value)
            /\ Covered(mt_telemetry.t, mt_forecast_dates[i + 1].value)}

\* C1: match_telemetry keeps a reference timestamp if and only if each of the
\* three series has at least one sample inside that timestamp's window; the
\* returned dates are exactly the kept timestamps in their original order,
\* and speed, phi, t, u and v have one entry per kept timestamp.
C1_KeepsOverlap ==
    mt_pc = "done" =>
        LET IsKept(row) == row.index \in DatesWithOverlap
        IN /\ mt_dates = SelectSeq(mt_forecast_dates, IsKept)
           /\ \A key \in {"speed", "phi", "t", "u", "v"} :
                 Len(mt_matched[key]) = Cardinality(DatesWithOverlap)

\* A call that kept one date and dropped another, the dropped one having a
\* speed sample in its window but no sample of another series.
C1_Witness ==
    /\ mt_pc = "done"
    /\ Len(mt_dates) = 1
    /\ \E i \in 1..Len(mt_forecast_dates) :
          /\ (i - 1) \notin DatesWithOverlap
          /\ WindowIds(mt_telemetry.speed, mt_forecast_dates[i].value) # <<>>

\* The values of the samples at most `reach` minutes (or, when strict, less
\* than `reach` minutes) from `date`.
ValuesAround(series, date, reach, strict) ==
    LET In(row) == IF strict THEN Abs(date - row.index) < reach
                   ELSE Abs(date - row.index) <= reach
    IN Values(SelectSeq(series, In))

\* v is the k-th smallest of the values xs: fewer than k of them lie below
\* v and at least k of them are v or lie below it.
IsKthSmallest(v, xs, k) ==
    /\ Cardinality({i \in 1..Len(xs) : xs[i] < v}) < k
    /\ Cardinality({i \in 1..Len(xs) : xs[i] <= v}) >= k

\* x is the median of the non-empty list xs: the middle value, or half the
\* sum of the two middle values.
IsMedianOf(x, xs) ==
    /\ xs # <<>>
    /\ \E lo, hi \in {xs[i] : i \in 1..Len(xs)} :
          /\ IsKthSmallest(lo, xs, (Len(xs) + 1) \div 2)
          /\ IsKthSmallest(hi, xs, (Len(xs) \div 2) + 1)
          /\ 2 * x = lo + hi

MediansAre(reach, strict) ==
    \A k \in 1..Len(mt_dates) :
        LET date == mt_dates[k].value
        IN /\ IsMedianOf(mt_matched.speed[k],
                         ValuesAround(mt_telemetry.speed, date, reach, strict))
           /\ IsMedianOf(mt_matched.phi[k],
                         ValuesAround(mt_telemetry.phi, date, reach, strict))
           /\ IsMedianOf(mt_matched.t[k],
                         ValuesAround(mt_telemetry.t, date, reach, strict))

\* C2 (as stated): for every kept reference timestamp and each series, the
\* returned value is the median of exactly the samples of that series with
\* |sample time - reference time| <= 30 minutes.
C2_ClosedWindow == mt_pc = "done" => MediansAre(30, FALSE)

\* C2 (amended): the same with the open window, |sample time - reference
\* time| < 30 minutes: a sample exactly 30 minutes away is left out.
C2_OpenWindow == mt_pc = "done" => MediansAre(30, TRUE)

\* A kept date with three speed samples less than 30 minutes away, whose
\* median is neither their mean nor their first, smallest or largest value,
\* and with two direction samples of different values less than 30 minutes
\* away and a third one exactly 30 minutes away, which is left out.
C2_Witness ==
    /\ mt_pc = "done"
    /\ \E k \in 1..Len(mt_dates) :
          LET date == mt_dates[k].value
              Inside(row) == Abs(date - row.index) < 30
              OnEdge(row) == Abs(date - row.index) = 30
              speeds == Values(SelectSeq(mt_telemetry.speed, Inside))
              dirs == Values(SelectSeq(mt_telemetry.phi, Inside))
              edge_dirs == Values(SelectSeq(mt_telemetry.phi, OnEdge))
          IN /\ Len(speeds) = 3
             /\ 3 * mt_matched.speed[k] # speeds[1] + speeds[2] + speeds[3]
             /\ mt_matched.speed[k] # speeds[1]
             /\ \E i, j \in 1..3 : /\ speeds[i] < mt_matched.speed[k]
                                    /\ mt_matched.speed[k] < speeds[j]
             /\ Len(dirs) = 2
             /\ dirs[1] # dirs[2]
             /\ Len(edge_dirs) = 1
             /\ 2 * mt_matched.phi[k] = dirs[1] + dirs[2]
             /\ edge_dirs[1] # mt_matched.phi[k]

---------------------------------------------------------------------------
(* Claims about correlate_marginals.                                       *)

\* C3: whenever correlate_marginals returns normally (for any X, including
\* one that already went through an earlier call), the returned dataframe
\* holds the y values of this call paired with the speed column, and the
\* correlation coefficient between the speed column and that y column is
\* <= rho.
C3_ReturnsThisCallsPairing ==
    cm_pc = "returned" =>
        /\ HasColumn(cm_X, "j_gl")
        /\ Column(cm_X, "j_gl") = cm_y_srtd
        /\ CorrLeq(Column(cm_X, "speed"), Column(cm_X, "j_gl"), cm_rho)

\* C4: correlate_marginals on N >= 1 samples performs at most 100 N swaps
\* and stops at the first swap after which the coefficient is <= rho; it
\* fails with the 'did not reach desired correlation coefficient' error if
\* and only if the coefficient was > rho after every one of the 100 N swaps,
\* and it fails with no other error.
C4_OnlyConvergenceFailure ==
    /\ cm_swaps <= 100 * Len(cm_y)
    /\ cm_pc = "returned" => CorrLeq(Column(cm_X, "speed"), cm_y_srtd, cm_rho)
    /\ cm_pc = "loop" /\ cm_swaps > 0
          => ~CorrLeq(Column(cm_X, "speed"), cm_y_srtd, cm_rho)
    /\ cm_pc = "raised"
          => /\ cm_error = "did not reach desired correlation coefficient!"
             /\ cm_swaps = 100 * Len(cm_y)

\* C10: after any number of swaps the working array of y values is a
\* permutation of the input y samples, the caller's y array is not modified,
\* and the speed values are only reordered by the initial sort.
C10_MarginalsKept ==
    cm_pc \in {"loop", "returned", "raised"} =>
        /\ SameMultiset(cm_y_srtd, cm_y)
        /\ Column(cm_X, "speed") = SortSeq(Column(cm_X_in, "speed"))
        /\ SameMultiset(Column(cm_X, "h"), Column(cm_X_in, "h"))
        /\ \A k \in 1..Len(cm_X.rows) :
              cm_X.rows[k].speed = cm_X_in.rows[cm_X.rows[k].h].speed

\* A return after a swap of two different values, from a frame that was
\* passed unsorted.
C10_Witness ==
    /\ cm_pc = "returned"
    /\ cm_y_srtd # SortSeq(cm_y)
    /\ Column(cm_X_in, "speed") # Column(cm_X, "speed")
    /\ cm_swaps >= 2

---------------------------------------------------------------------------
(* Claims about integrate_in_bins.                                         *)

\* The sample altitudes strictly inside bin b (1-based) of the edges.
SamplesInBin(b) ==
    LET first == ib_edges[1]
        step == (ib_edges[Len(ib_edges)] - first) \div 999
    IN {x \in (ib_edges[b] + 1)..(ib_edges[b + 1] - 1) : (x - first) % step = 0}

\* C7: integrate_in_bins returns exactly len(edges) - 1 values, one per bin
\* in edge order, and every bin that contains none of the 1000 equally spaced
\* samples strictly inside its two boundaries gets J = 0 for that bin,
\* without an error and without changing the values of the other bins (a
\* bin with samples gets the integral over its own samples, here the
\* constant cn2 times their extent).
C7_EmptyBinsAreZero ==
    ib_pc = "done" =>
        /\ Len(ib_J) = Len(ib_edges) - 1
        /\ \A b \in 1..(Len(ib_edges) - 1) :
              LET inside == SamplesInBin(b)
              IN IF inside = {} THEN ib_J[b] = 0
                 ELSE \E lo \in inside : \E hi \in inside :
                         /\ \A x \in inside : lo <= x /\ x <= hi
                         /\ ib_J[b] = ib_cn2[1] * (hi - lo)

\* A return with a bin without samples between two bins with samples.
C7_Witness ==
    /\ ib_pc = "done"
    /\ \E b \in 2..(Len(ib_edges) - 2) :
          /\ SamplesInBin(b) = {}
          /\ ib_J[b - 1] = 0 /\ SamplesInBin(b - 1) # {}
          /\ ib_J[b + 1] > 0

---------------------------------------------------------------------------
(* Claims about convert_to_galsim.                                         *)

\* C9 (as stated): convert_to_galsim has no side effects: after a call, the
\* ParameterSet passed by the caller (its entries v, u, speed, phi, h, edges
\* and j) is unchanged, so that calling it twice with the same arguments
\* gives the same result both times.
C9_NoSideEffects ==
    /\ Len(cg_returned) >= 1 => cg_params = cg_params_in
    /\ Len(cg_returned) >= 2 => cg_returned[2] = cg_returned[1]

\* x times the n-th power of f.
RECURSIVE TimesPower(_, _, _)
TimesPower(x, f, n) == IF n = 0 THEN x ELSE TimesPower(FMul(x, f), f, n - 1)

\* C9 (amended): convert_to_galsim converts the caller's ParameterSet in
\* place and returns it: after each call the caller's dict holds what the
\* call returned, with h, edges and j multiplied by the secant of the zenith
\* angle once per call made, so a second call with the same arguments
\* converts the converted values again.
C9_ConvertsInPlace ==
    Len(cg_returned) >= 1 =>
        LET calls == Len(cg_returned)
            sec_zenith == FInv(cg_args.alt.sin)
        IN /\ cg_params = cg_returned[calls]
           /\ \A key \in {"h", "edges", "j"} :
                 \A k \in 1..Len(cg_params[key]) :
                    cg_params[key][k] =
                        TimesPower(cg_params_in[key][k], sec_zenith, calls)
           /\ \A k \in 1..Len(cg_params.v) :
                 FMul(cg_params.speed[k], cg_params.speed[k]) =
                    FAdd(FMul(cg_params.v[k], cg_params.v[k]),
                         FMul(cg_params.u[k], cg_params.u[k]))

\* Two calls away from the zenith: the second return differs from the first.
C9_Witness ==
    /\ Len(cg_returned) = 2
    /\ cg_returned[2] # cg_returned[1]
    /\ cg_params.v # cg_params_in.v
    /\ cg_params.h # cg_params_in.h

=============================================================================
